---- MODULE Spec2Model ----
(***************************************************************************)
(* FSTDict (src/fst.h): construction of a minimal acyclic subsequential    *)
(* transducer from (input, output) pairs, its compilation to a stream of   *)
(* 32-bit cells, the virtual machine that interprets the stream, and the   *)
(* binary codec.                                                           *)
(*                                                                         *)
(* Strings are sequences of byte values.  A C++ index i (0-based) is the   *)
(* TLA+ index i+1.  Objects of type State live in `heap'; a pointer        *)
(* (shared_ptr<State>) is an index into heap and 0 is the null pointer.    *)
(* The construction buffer buf[0..maxInputWordLen] is heap[1..] (Buf(i)).  *)
(* A cell of the program is the 32-bit word of union Instruction, laid out *)
(* low-order byte first: op, ch, then the 16-bit jump.                     *)
(***************************************************************************)
EXTENDS Integers, Sequences, FiniteSets, TLC

\* ---------------------------------------------------------------- bounds
NumBytes == 2
MaxKeyLen == 2
MaxPairs == 3
MaxOut == 2

Alphabet == 97..(96 + NumBytes)
Strings(n) == UNION {[1..m -> Alphabet] : m \in 0..n}
Keys == Strings(MaxKeyLen)
Queries == Strings(MaxKeyLen)
Outs == 0..MaxOut
Pairs == [in : Keys, out : Outs]
Inputs == UNION {[1..n -> Pairs] : n \in 0..MaxPairs}

\* ------------------------------------------------------- program constants
UINT16_MAX == 65535
magicOutput == 8191
magicTransition == 1001
SizeofSizeT == 8
OpAccept == 1
OpAcceptBreak == 2
OpMatch == 3
OpBreak == 4
OpOutput == 5
OpOutputBreak == 6

\* ------------------------------------------------------------- utilities
MinOf(S) == CHOOSE x \in S : \A y \in S : x <= y
MaxOf(S) == CHOOSE x \in S : \A y \in S : y <= x

\* unordered_map: find / insert (insert keeps an existing entry) / erase
MapInsert(m, k, v) == IF k \in DOMAIN m THEN m ELSE (k :> v) @@ m
MapErase(m, k) == [x \in (DOMAIN m) \ {k} |-> m[x]]

\* std::string operator< : lexicographic on unsigned bytes
StrLess(a, b) ==
  \E i \in 1..(Len(b)) :
     /\ i - 1 <= Len(a)
     /\ \A j \in 1..(i - 1) : a[j] = b[j]
     /\ (i > Len(a) \/ a[i] < b[i])

\* b[i] of std::string b at C++ index i <= b.size(); index b.size() is the
\* terminating '\0'
CharAt(b, i) == IF i < Len(b) THEN b[i + 1] ELSE 0

\* The bytes in the storage of a std::string after s is assigned to it:
\* the characters of s, the terminator, and behind it what earlier, longer
\* values left there (keys short enough to stay in the same storage).
StrStore(old, s) ==
  [i \in 1..(IF Len(old) > Len(s) + 1 THEN Len(old) ELSE Len(s) + 1) |->
     IF i <= Len(s) THEN s[i] ELSE IF i = Len(s) + 1 THEN 0 ELSE old[i]]

\* the storage of the local prev of buildMAST after the first n pairs:
\* "string prev;" holds only its terminator, each pass ends with prev = in
RECURSIVE PrevStore(_, _)
PrevStore(inp, n) ==
  IF n = 0 THEN <<0>> ELSE StrStore(PrevStore(inp, n - 1), inp[n].in)

\* std::mismatch(a.begin(), a.end(), b.begin()).first - a.begin(), where
\* store holds the bytes of b's storage.  The scan goes on to a.end() and
\* is not stopped at b.end(): behind the terminator it compares with the
\* bytes left in the storage, and behind those with bytes never written,
\* of which the first u happen to equal the bytes of a.
commonPrefixLen(a, store, u) ==
  LET diff == {i \in 0..(Len(a) - 1) :
                 i < Len(store) /\ a[i + 1] # store[i + 1]}
      known == IF diff = {} THEN Len(a) ELSE MinOf(diff)
  IN  IF known <= Len(store) THEN known
      ELSE IF Len(store) + u < Len(a) THEN Len(store) + u ELSE Len(a)

\* std::sort with Pair::operator< (compares in only): the result is a
\* permutation ordered by in; the order of pairs with equal in is unspecified
SortResults(inp) ==
  LET n == Len(inp)
      perms == {p \in [1..n -> 1..n] : \A i, j \in 1..n : i # j => p[i] # p[j]}
      outs == {[i \in 1..n |-> inp[p[i]]] : p \in perms}
  IN  {s \in outs : \A i \in 1..(n - 1) : ~StrLess(s[i + 1].in, s[i].in)}

\* ----------------------------------------------------------------- State
NewState ==
  [id |-> 0, trans |-> <<>>, output |-> <<>>, tail |-> {},
   isFinal |-> FALSE, hcode |-> 0]

Buf(i) == i + 1

addTail(st, t) == [st EXCEPT !.tail = @ \cup {t}]

removeOutput(st, ch) ==
  IF ch \in DOMAIN st.output
  THEN [st EXCEPT
          !.hcode = IF st.output[ch] # 0
                    THEN @ - (ch + st.output[ch]) * magicOutput ELSE @,
          !.output = MapErase(@, ch)]
  ELSE st

setOutput(st, ch, out) ==
  IF out = 0 THEN st
  ELSE [st EXCEPT !.output = MapInsert(@, ch, out),
                  !.hcode = @ + (ch + out) * magicOutput]

\* nextId is next->id at the time of the call
setTransition(st, ch, next, nextId) ==
  [st EXCEPT !.trans = MapInsert(@, ch, next),
             !.hcode = @ + (ch + nextId) * magicTransition]

renew(st) ==
  [st EXCEPT !.trans = <<>>, !.output = <<>>, !.tail = {},
             !.isFinal = FALSE, !.hcode = 0]

\* State::operator== on the objects p and q of heap h
StateEq(h, p, q) ==
  \/ p = q
  \/ /\ h[p].hcode = h[q].hcode
     /\ Cardinality(DOMAIN h[p].trans) = Cardinality(DOMAIN h[q].trans)
     /\ Cardinality(DOMAIN h[p].output) = Cardinality(DOMAIN h[q].output)
     /\ Cardinality(h[p].tail) = Cardinality(h[q].tail)
     /\ h[p].isFinal = h[q].isFinal
     /\ DOMAIN h[p].trans = DOMAIN h[q].trans
     /\ \A c \in DOMAIN h[p].trans : h[p].trans[c] = h[q].trans[c]
     /\ DOMAIN h[p].output = DOMAIN h[q].output
     /\ \A c \in DOMAIN h[p].output : h[p].output[c] = h[q].output[c]
     /\ h[p].tail = h[q].tail

\* ------------------------------------------------------------------ Mast
\* The builder's data: the State objects, Mast.states / Mast.finalStates
\* (pointers), the registry dict (hcode -> bucket of pointers) and the
\* std::out_of_range a failed at() raised ("" while none was raised).
addState(b, n) ==
  [b EXCEPT !.heap[n].id = Len(b.states),
            !.states = Append(@, n),
            !.finalStates = IF b.heap[n].isFinal THEN Append(@, n) ELSE @]

\* (variant of FirstEqual: the bucket is not scanned, no state is reused)
FirstEqual_noReuse(h, cs, p) == 0

\* the first c of bucket cs with *c == *buf[i]; 0 when there is none
FirstEqual(h, cs, p) ==
  LET hit == {n \in 1..Len(cs) : StateEq(h, cs[n], p)}
  IN  IF hit = {} THEN 0 ELSE cs[MinOf(hit)]

\* dict.find(buf[i]->hcode) and the scan of the bucket; a missing bucket is
\* inserted empty
FindEqual(b, i) ==
  LET hc == b.heap[Buf(i)].hcode
  IN  IF hc \in DOMAIN b.dict
      THEN [s |-> FirstEqual(b.heap, b.dict[hc], Buf(i)), dict |-> b.dict]
      ELSE [s |-> 0, dict |-> (hc :> <<>>) @@ b.dict]

\* make_shared<State>(*buf[i])
CloneOf(b, i) == [b EXCEPT !.heap = Append(@, b.heap[Buf(i)])]

\* one iteration of the loop "freeze suffix of prev" of buildMAST
FreezeStep(b, i, prev) ==
  LET f == FindEqual(b, i)
      hc == b.heap[Buf(i)].hcode
      n == Len(b.heap) + 1
      s == IF f.s # 0 THEN f.s ELSE n
      b1 == [b EXCEPT !.dict = f.dict]
      b2 == IF f.s # 0 THEN b1
            ELSE LET c == addState(CloneOf(b1, i), n)
                 IN  [c EXCEPT !.dict[hc] = Append(@, n)]
      b3 == [b2 EXCEPT !.heap[Buf(i)] = renew(@)]
  IN  [b3 EXCEPT !.heap[Buf(i - 1)] =
                     setTransition(@, prev[i], s, b3.heap[s].id)]

RECURSIVE FreezeLoop(_, _, _, _)
FreezeLoop(b, i, prefixLen, prev) ==
  IF i > prefixLen
  THEN FreezeLoop(FreezeStep(b, i, prev), i - 1, prefixLen, prev)
  ELSE b

\* the loop that wires buf[i-1] --in[i-1]--> buf[i] for prefixLen < i < len
RECURSIVE ExtendLoop(_, _, _)
ExtendLoop(b, i, in) ==
  IF i < Len(in)
  THEN ExtendLoop([b EXCEPT !.heap[Buf(i - 1)] =
                      setTransition(@, in[i], Buf(i), b.heap[Buf(i)].id)],
                  i + 1, in)
  ELSE b

\* buf[j]->setOutput(ch, outSuff) for every ch of buf[j]->trans
RECURSIVE SetOutputAll(_, _, _)
SetOutputAll(st, chs, outSuff) ==
  IF chs = {} THEN st
  ELSE LET ch == MinOf(chs)
       IN  SetOutputAll(setOutput(st, ch, outSuff), chs \ {ch}, outSuff)

\* the redistribution loop; r = [b, out]; at() of a byte without an entry
\* raises std::out_of_range and ends buildMAST
RECURSIVE Redistribute(_, _, _, _)
Redistribute(r, j, prefixLen, in) ==
  IF j >= prefixLen + 1 THEN r
  ELSE
    LET b == r.b
        ch == in[j]
        from == b.heap[Buf(j - 1)]
    IN  IF ch \notin DOMAIN from.output
        THEN [r EXCEPT !.b.threw = "output.at"]
        ELSE IF from.output[ch] = r.out
        THEN [r EXCEPT !.out = 0]
        ELSE
          LET outSuff == from.output[ch]
              h1 == [b.heap EXCEPT ![Buf(j - 1)] = removeOutput(@, ch)]
              h2 == [h1 EXCEPT ![Buf(j)] =
                        SetOutputAll(@, DOMAIN h1[Buf(j)].trans, outSuff)]
              h3 == IF h2[Buf(j)].isFinal /\ outSuff # 0
                    THEN [h2 EXCEPT ![Buf(j)] = addTail(@, outSuff)]
                    ELSE h2
          IN  Redistribute([r EXCEPT !.b.heap = h3], j + 1, prefixLen, in)

\* the body of the loop over the sorted pairs of buildMAST
ProcessPair(b0, pair, prev, store, u) ==
  LET in == pair.in
      fZero == (pair.out = 0)
      prefixLen == commonPrefixLen(in, store, u)
      b1 == FreezeLoop(b0, Len(prev), prefixLen, prev)
      b2 == ExtendLoop(b1, prefixLen + 1, in)
      b3 == IF in # prev
            THEN [b2 EXCEPT !.heap[Buf(Len(in))].isFinal = TRUE]
            ELSE b2
      r == Redistribute([b |-> b3, out |-> pair.out], 1, prefixLen, in)
      b4 == r.b
  IN  IF b4.threw # "" THEN b4
      ELSE IF in # prev
      THEN [b4 EXCEPT !.heap[Buf(prefixLen)] =
                         setOutput(@, CharAt(in, prefixLen), r.out)]
      ELSE IF fZero \/ r.out # 0
      THEN [b4 EXCEPT !.heap[Buf(Len(in))] = addTail(@, r.out)]
      ELSE b4

\* one iteration of the loop "flush the buf" of buildMAST: buf[i] is renewed
\* before dict.at(buf[i]->hcode), which therefore looks up bucket 0
FlushStep(b, i, prev) ==
  LET f == FindEqual(b, i)
      n == Len(b.heap) + 1
      s == IF f.s # 0 THEN f.s ELSE n
      b1 == [b EXCEPT !.dict = f.dict]
      c1 == CloneOf(b1, i)
      c2 == [c1 EXCEPT !.heap[Buf(i)] = renew(@)]
      c3 == addState(c2, n)
      hc == c3.heap[Buf(i)].hcode
      b2 == IF f.s # 0 THEN b1
            ELSE IF hc \notin DOMAIN c3.dict
            THEN [c3 EXCEPT !.threw = "dict.at"]
            ELSE [c3 EXCEPT !.dict[hc] = Append(@, n)]
  IN  IF b2.threw # "" THEN b2
      ELSE [b2 EXCEPT !.heap[Buf(i - 1)] =
                         setTransition(@, prev[i], s, b2.heap[s].id)]

RECURSIVE FlushLoop(_, _, _)
FlushLoop(b, i, prev) ==
  IF i > 0 /\ b.threw = ""
  THEN FlushLoop(FlushStep(b, i, prev), i - 1, prev)
  ELSE b

\* the end of buildMAST: flush, then m->initialState = buf[0] and
\* m->addState(buf[0])
Flush(b, prev) ==
  LET b1 == FlushLoop(b, Len(prev), prev)
  IN  IF b1.threw # "" THEN b1 ELSE addState(b1, Buf(0))

\* the state of buildMAST before its loop: buf holds maxInputWordLen+1
\* value-initialised states
maxInputWordLen(inp) == MaxOf({0} \cup {Len(inp[i].in) : i \in 1..Len(inp)})

InitBuilder(inp) ==
  [heap |-> [i \in 1..(maxInputWordLen(inp) + 1) |-> NewState],
   states |-> <<>>, finalStates |-> <<>>, dict |-> <<>>, threw |-> ""]

\* ----------------------------------------------------------- Instruction
\* union Instruction as its 32-bit word, held as the int32_t v32 that
\* aliases it: ops.op is the low byte, ops.ch the next byte, ops.jump the
\* high 16 bits (a jump of 32768 or more makes v32 negative)
OpCell(op, ch, jump) ==
  op + 256 * ch + 65536 * (IF jump >= 32768 THEN jump - 65536 ELSE jump)
RawCell(v) == v
CellOp(c) == c % 256
CellCh(c) == (c \div 256) % 256
CellJump(c) == (c \div 65536) % 65536
CellV32(c) == c

\* the elements of a std::set<int32_t> in iteration (ascending) order
RECURSIVE SetInOrder(_)
SetInOrder(S) ==
  IF S = {} THEN <<>>
  ELSE LET x == MinOf(S) IN <<x>> \o SetInOrder(S \ {x})

\* reverse_copy(first, last, d_first) into the vector dst: the elements are
\* assigned through dst.begin() and dst is never resized, so dst keeps its
\* size (writing past its storage is undefined when src is not empty)
reverse_copy(src, dst) == dst
reverse_copy_defined(src, dst) == Len(src) <= Len(dst)

\* ------------------------------------------------- Mast::buildMachine
\* e = [prog, data, addrMap, err, threw, ub]: the provisional stream, the
\* data array, the address map, *err, the exception raised and whether an
\* end() iterator was dereferenced
InitEmit ==
  [prog |-> <<>>, data |-> <<>>, addrMap |-> <<>>, err |-> "",
   threw |-> "", ub |-> FALSE]

\* (variant of EmitEdge: the jump is the distance between the two lengths,
\* without the + 1)
EmitEdge_jumpNoPlusOne(e, h, s, ch, first) ==
  LET next == h[s].trans[ch]
      nid == h[next].id
      found == nid \in DOMAIN e.addrMap
      e1 == IF ~found /\ ~h[next].isFinal
            THEN [e EXCEPT !.err = "next addr is undefined"] ELSE e
  IN  IF ch \notin DOMAIN h[s].output THEN [e EXCEPT !.threw = "output.at"]
      ELSE IF ~found THEN [e1 EXCEPT !.ub = TRUE]
      ELSE
        LET out == h[s].output[ch]
            jump == Len(e.prog) - e.addrMap[nid]
            op == IF out # 0
                  THEN (IF first THEN OpOutputBreak ELSE OpOutput)
                  ELSE (IF first THEN OpBreak ELSE OpMatch)
            p1 == IF jump > UINT16_MAX
                  THEN Append(e.prog, RawCell(jump)) ELSE e.prog
            jump16 == IF jump > UINT16_MAX THEN 0 ELSE jump
            p2 == IF out # 0 THEN Append(p1, RawCell(out)) ELSE p1
        IN  [e1 EXCEPT !.prog = Append(p2, OpCell(op, ch, jump16))]

\* the body of the loop over the edges of state s, for byte ch; first is
\* it == edges.crbegin()
EmitEdge(e, h, s, ch, first) ==
  LET next == h[s].trans[ch]
      nid == h[next].id
      found == nid \in DOMAIN e.addrMap
      e1 == IF ~found /\ ~h[next].isFinal
            THEN [e EXCEPT !.err = "next addr is undefined"] ELSE e
  IN  IF ch \notin DOMAIN h[s].output THEN [e EXCEPT !.threw = "output.at"]
      ELSE IF ~found THEN [e1 EXCEPT !.ub = TRUE]
      ELSE
        LET out == h[s].output[ch]
            jump == Len(e.prog) - e.addrMap[nid] + 1
            op == IF out # 0
                  THEN (IF first THEN OpOutputBreak ELSE OpOutput)
                  ELSE (IF first THEN OpBreak ELSE OpMatch)
            p1 == IF jump > UINT16_MAX
                  THEN Append(e.prog, RawCell(jump)) ELSE e.prog
            jump16 == IF jump > UINT16_MAX THEN 0 ELSE jump
            p2 == IF out # 0 THEN Append(p1, RawCell(out)) ELSE p1
        IN  [e1 EXCEPT !.prog = Append(p2, OpCell(op, ch, jump16))]

\* edges in descending byte order (edges.crbegin() .. edges.crend())
RECURSIVE EmitEdges(_, _, _, _, _)
EmitEdges(e, h, s, chs, first) ==
  IF chs = {} \/ e.threw # "" \/ e.ub THEN e
  ELSE LET ch == MaxOf(chs)
       IN  EmitEdges(EmitEdge(e, h, s, ch, first), h, s, chs \ {ch}, FALSE)

\* the accept cell of a final state: Accept when s->trans is empty,
\* AcceptBreak otherwise; ch is 1 when a tail range precedes it
AcceptOp(st) == IF DOMAIN st.trans = {} THEN OpAccept ELSE OpAcceptBreak

EmitFinal(e, st) ==
  LET tl == SetInOrder(st.tail)
      p1 == IF st.tail # {}
            THEN e.prog \o <<RawCell(Len(e.data)),
                             RawCell(Len(e.data) + Len(tl))>>
            ELSE e.prog
      d1 == e.data \o tl
  IN  [e EXCEPT !.prog = Append(p1, OpCell(AcceptOp(st),
                                           IF st.tail # {} THEN 1 ELSE 0, 0)),
                !.data = d1]

\* the body of the loop over Mast.states for state s
EmitState(e, h, s) ==
  LET e1 == EmitEdges(e, h, s, DOMAIN h[s].trans, TRUE)
      e2 == IF h[s].isFinal THEN EmitFinal(e1, h[s]) ELSE e1
  IN  IF e1.threw # "" \/ e1.ub THEN e1
      ELSE [e2 EXCEPT !.addrMap = MapInsert(@, h[s].id, Len(e2.prog))]

\* ------------------------------------------------------------- FST::run
\* plain char converted to int for the comparison ch != input[hd]; sg says
\* whether the build's char is signed
CharToInt(b, sg) == IF sg /\ b >= 128 THEN b - 256 ELSE b

\* prog[pc] exists
InProg(prog, pc) == pc >= 0 /\ pc < Len(prog)

\* The registers of run: pc, hd, out, op, snap and where control is:
\* "loop" (at the loop test), "end" (at L_END), "ret" (returned from inside
\* the loop, accept false), "ub" (a cell or a data range outside its array
\* was read, or pc left the range of int: the run is not followed, or the
\* process ended there).
InitRun(out0, op0) ==
  [pc |-> 0, hd |-> 0, out |-> out0, op |-> op0, snap |-> <<>>, at |-> "loop"]

\* pc after a matched transition whose op cell is at pc0 and whose jump
\* field is read at pc1 (pc1 = pc0 for Match, pc0 + 1 for Output).  ok is
\* FALSE when the raw cell is outside prog or when pc += v32 leaves the
\* range of int.
INT_MAX == 2147483647
JumpFrom(prog, pc1, jump) ==
  IF jump > 0 THEN [ok |-> TRUE, pc |-> pc1 + jump]
  ELSE IF ~InProg(prog, pc1 + 1) THEN [ok |-> FALSE, pc |-> pc1 + 1]
  ELSE IF CellV32(prog[pc1 + 2]) > INT_MAX - (pc1 + 1)
  THEN [ok |-> FALSE, pc |-> pc1 + 1]
  ELSE [ok |-> TRUE, pc |-> pc1 + 1 + CellV32(prog[pc1 + 2])]

\* (variant of RunMatch: a matched byte is not consumed, hd stays)
RunMatch_noHeadAdvance(prog, input, st, sg) ==
  LET c == prog[st.pc + 1]
      op == CellOp(c)
      ch == CellCh(c)
      jump == CellJump(c)
      s1 == [st EXCEPT !.op = op]
  IN  IF st.hd = Len(input) THEN [s1 EXCEPT !.at = "end"]
      ELSE IF ch # CharToInt(input[st.hd + 1], sg)
      THEN IF op = OpBreak THEN [s1 EXCEPT !.at = "ret"]
           ELSE [s1 EXCEPT !.pc = @ + (IF jump = 0 THEN 2 ELSE 1)]
      ELSE LET j == JumpFrom(prog, st.pc, jump)
           IN  IF j.ok THEN [s1 EXCEPT !.pc = j.pc]
               ELSE [s1 EXCEPT !.pc = j.pc, !.at = "ub"]

RunMatch(prog, input, st, sg) ==
  LET c == prog[st.pc + 1]
      op == CellOp(c)
      ch == CellCh(c)
      jump == CellJump(c)
      s1 == [st EXCEPT !.op = op]
  IN  IF st.hd = Len(input) THEN [s1 EXCEPT !.at = "end"]
      ELSE IF ch # CharToInt(input[st.hd + 1], sg)
      THEN IF op = OpBreak THEN [s1 EXCEPT !.at = "ret"]
           ELSE [s1 EXCEPT !.pc = @ + (IF jump = 0 THEN 2 ELSE 1)]
      ELSE LET j == JumpFrom(prog, st.pc, jump)
           IN  IF j.ok THEN [s1 EXCEPT !.pc = j.pc, !.hd = @ + 1]
               ELSE [s1 EXCEPT !.pc = j.pc, !.at = "ub"]

RunOutput(prog, input, st, sg) ==
  LET c == prog[st.pc + 1]
      op == CellOp(c)
      ch == CellCh(c)
      jump == CellJump(c)
      s1 == [st EXCEPT !.op = op]
  IN  IF st.hd = Len(input) THEN [s1 EXCEPT !.at = "end"]
      ELSE IF ch # CharToInt(input[st.hd + 1], sg)
      THEN IF op = OpOutputBreak THEN [s1 EXCEPT !.at = "ret"]
           ELSE [s1 EXCEPT !.pc = @ + (IF jump = 0 THEN 3 ELSE 2)]
      ELSE IF ~InProg(prog, st.pc + 1)
      THEN [s1 EXCEPT !.pc = @ + 1, !.at = "ub"]
      ELSE LET out == CellV32(prog[st.pc + 2])
               j == JumpFrom(prog, st.pc + 1, jump)
           IN  IF j.ok
               THEN [s1 EXCEPT !.pc = j.pc, !.out = out, !.hd = @ + 1]
               ELSE [s1 EXCEPT !.pc = j.pc, !.out = out, !.at = "ub"]

RunAccept(prog, data, input, st) ==
  LET c == prog[st.pc + 1]
      op == CellOp(c)
      ch == CellCh(c)
      s1 == [st EXCEPT !.op = op]
      stop == (op = OpAcceptBreak \/ st.hd = Len(input))
  IN  IF ch = 0
      THEN [s1 EXCEPT !.pc = @ + 1,
                      !.snap = Append(@, [pc |-> st.pc, hd |-> st.hd,
                                          out |-> <<st.out>>]),
                      !.at = IF stop THEN "end" ELSE "loop"]
      ELSE IF ~InProg(prog, st.pc + 1) \/ ~InProg(prog, st.pc + 2)
      THEN [s1 EXCEPT !.pc = @ + 1, !.at = "ub"]
      ELSE LET to == CellV32(prog[st.pc + 2])
               from == CellV32(prog[st.pc + 3])
           \* insert(end, first, last) copies nothing when first = last
           IN  IF from # to /\ (from < 0 \/ to > Len(data) \/ from > to)
               THEN [s1 EXCEPT !.pc = @ + 2, !.at = "ub"]
               ELSE [s1 EXCEPT
                       !.pc = @ + 3,
                       !.snap = Append(@, [pc |-> st.pc, hd |-> st.hd,
                                  out |-> IF from = to THEN <<>>
                                          ELSE SubSeq(data, from + 1, to)]),
                       !.at = IF stop THEN "end" ELSE "loop"]

\* one pass through the while loop of run (the test, then the switch)
RunStep(prog, data, input, st, sg) ==
  IF ~(InProg(prog, st.pc) /\ st.hd <= Len(input))
  THEN [st EXCEPT !.at = "end"]
  ELSE LET op == CellOp(prog[st.pc + 1])
       IN  IF op \in {OpMatch, OpBreak} THEN RunMatch(prog, input, st, sg)
           ELSE IF op \in {OpOutput, OpOutputBreak}
           THEN RunOutput(prog, input, st, sg)
           ELSE IF op \in {OpAccept, OpAcceptBreak}
           THEN RunAccept(prog, data, input, st)
           ELSE [st EXCEPT !.op = op, !.at = "ret"]

RECURSIVE RunLoop(_, _, _, _, _)
RunLoop(prog, data, input, st, sg) ==
  IF st.at # "loop" THEN st
  ELSE RunLoop(prog, data, input, RunStep(prog, data, input, st, sg), sg)

\* run(input, &accept): the snapshots, *accept, and whether the run read
\* outside the program or the data array.  out0 and op0 are the values the
\* uninitialised locals out and op happen to hold.
run(f, input, out0, op0, sg) ==
  LET st == RunLoop(f.prog, f.data, input, InitRun(out0, op0), sg)
  IN  [snap |-> st.snap,
       accept |-> (st.at = "end" /\ st.hd = Len(input)
                   /\ st.op \in {OpAccept, OpAcceptBreak}),
       ub |-> (st.at = "ub")]

Search(f, input, out0, op0, sg) ==
  LET r == run(f, input, out0, op0, sg)
  IN  IF ~r.accept \/ Len(r.snap) = 0 THEN <<>>
      ELSE r.snap[Len(r.snap)].out

\* (variant of PrefixSearchLength: the case of no snapshot is not told apart,
\* the length is the head position 0 of a run that accepted nothing)
PrefixSearchLength_noMiss(f, input, out0, op0, sg) ==
  LET r == run(f, input, out0, op0, sg)
  IN  IF Len(r.snap) = 0 THEN 0 ELSE r.snap[Len(r.snap)].hd

\* PrefixSearch: *length
PrefixSearchLength(f, input, out0, op0, sg) ==
  LET r == run(f, input, out0, op0, sg)
  IN  IF Len(r.snap) = 0 THEN -1 ELSE r.snap[Len(r.snap)].hd

PrefixSearch(f, input, out0, op0, sg) ==
  LET r == run(f, input, out0, op0, sg)
  IN  IF Len(r.snap) = 0 THEN <<>> ELSE r.snap[Len(r.snap)].out

\* CommonPrefixSearch: *lens and the returned outputs
CommonPrefixSearch(f, input, out0, op0, sg) ==
  LET r == run(f, input, out0, op0, sg)
  IN  [lens |-> [i \in 1..Len(r.snap) |-> r.snap[i].hd],
       outputs |-> [i \in 1..Len(r.snap) |-> r.snap[i].out]]

\* ----------------------------------------------------------------- codec
\* WriteUint<T>(os, value), sizeof(T) = w: the w bytes written, the low-order
\* byte first (value /= 256 after each byte; for a negative int32_t cast to
\* uint32_t the floor division yields the same four bytes)
RECURSIVE WriteUint(_, _)
WriteUint(value, w) ==
  IF w = 0 THEN <<>>
  ELSE <<value % 256>> \o WriteUint(value \div 256, w - 1)

\* A value that nothing in the program determines: an uninitialised local,
\* a cell or an element read before or behind an array, a cell or an
\* element made of bytes that a failed read left unset.  It may be any
\* value of its type and differs from one call and one process to the
\* next.  The program only copies and stores such a value; where it
\* computes with one, every result it can get is followed instead.
Indet == "indeterminate"

\* The w bytes ReadUint<T> takes from stream r at offset pos.  A read at the
\* end of the stream fails and leaves buf as it was: the last byte read by
\* this call, or, when the call reads no byte at all, the value g its
\* uninitialised buf holds.
StreamBytes(r, pos, w, g) ==
  [i \in 1..w |->
     IF pos + i <= Len(r) THEN r[pos + i]
     ELSE IF pos < Len(r) THEN r[Len(r)] ELSE g]

\* the values the uninitialised char buf of ReadUint may hold, read as
\* unsigned char: all of them
GarbageByte == 0..255
BufValues(r, pos) == IF pos < Len(r) THEN {0} ELSE GarbageByte

\* the byte sequences one call of ReadUint<T> may take at offset pos; each
\* call has its own buf
ReadVals(r, pos, w) == {StreamBytes(r, pos, w, g) : g \in BufValues(r, pos)}

\* ReadUint<T>: value = value * 256 | byte for each byte in stream order, so
\* the first byte read is the most significant one.
\* sizeof(T) = 1 and 2:
RECURSIVE ReadUint(_)
ReadUint(bs) ==
  IF bs = <<>> THEN 0
  ELSE ReadUint(SubSeq(bs, 1, Len(bs) - 1)) * 256 + bs[Len(bs)]

\* ReadUint<uint32_t> converted to int32_t
ReadUint32(bs) ==
  (IF bs[1] >= 128 THEN bs[1] - 256 ELSE bs[1]) * 16777216
  + ReadUint(SubSeq(bs, 2, 4))

\* ReadUint<size_t>: the value v when it is below 2^31; otherwise big is
\* TRUE and v stands for "at least 2^31".  fits says that the value is
\* below 2^45, so that an array of that many 4-byte cells is smaller than
\* the 2^47 bytes of address space a process has.
ReadUintSize(bs) ==
  IF (\A i \in 1..(SizeofSizeT - 4) : bs[i] = 0) /\ bs[SizeofSizeT - 3] < 128
  THEN [big |-> FALSE, fits |-> TRUE,
        v |-> ReadUint(SubSeq(bs, SizeofSizeT - 3, SizeofSizeT))]
  ELSE [big |-> TRUE,
        fits |-> (\A i \in 1..(SizeofSizeT - 6) : bs[i] = 0)
                 /\ bs[SizeofSizeT - 5] < 32,
        v |-> INT_MAX]

\* Whether vector::reserve(n) raises: std::length_error or std::bad_alloc
\* for a length that does not fit the address space; for a length of 2^31
\* cells or more that fits, std::bad_alloc or not, as the memory the system
\* grants decides.
ReserveThrows(n) ==
  IF ~n.big THEN {FALSE} ELSE IF n.fits THEN {FALSE, TRUE} ELSE {TRUE}

\* FST::Write, the loop over prog from cell pc on: w = [ok, bytes, ub]
RECURSIVE WriteProg(_, _, _)
WriteProg(prog, pc, w) ==
  IF pc >= Len(prog) THEN w
  ELSE
    LET c == prog[pc + 1]
        op == CellOp(c)
        ch == CellCh(c)
        jump == CellJump(c)
        w1 == [w EXCEPT !.bytes = @ \o WriteUint(op, 1) \o WriteUint(ch, 1)]
        cell(n) == WriteUint(prog[pc + 1 + n], 4)
    IN  IF op \in {OpAccept, OpAcceptBreak}
        THEN IF ch = 0 THEN WriteProg(prog, pc + 1, w1)
             ELSE IF ~InProg(prog, pc + 2) THEN [w1 EXCEPT !.ub = TRUE]
             ELSE WriteProg(prog, pc + 3,
                    [w1 EXCEPT !.bytes = @ \o cell(1) \o cell(2)])
        ELSE IF op \in {OpMatch, OpBreak}
        THEN LET w2 == [w1 EXCEPT !.bytes = @ \o WriteUint(jump, 2)]
             IN  IF jump # 0 THEN WriteProg(prog, pc + 1, w2)
                 ELSE IF ~InProg(prog, pc + 1) THEN [w2 EXCEPT !.ub = TRUE]
                 ELSE WriteProg(prog, pc + 2,
                        [w2 EXCEPT !.bytes = @ \o cell(1)])
        ELSE IF op \in {OpOutput, OpOutputBreak}
        THEN LET w2 == [w1 EXCEPT !.bytes = @ \o WriteUint(jump, 2)]
             IN  IF ~InProg(prog, pc + 1) THEN [w2 EXCEPT !.ub = TRUE]
                 ELSE IF jump # 0
                 THEN WriteProg(prog, pc + 2,
                        [w2 EXCEPT !.bytes = @ \o cell(1)])
                 ELSE IF ~InProg(prog, pc + 2) THEN [w2 EXCEPT !.ub = TRUE]
                 \* no break after the extended jump: control falls into
                 \* default, which returns false
                 ELSE [w2 EXCEPT !.bytes = @ \o cell(1) \o cell(2),
                                 !.ok = FALSE]
        ELSE [w1 EXCEPT !.ok = FALSE]

RECURSIVE WriteData(_)
WriteData(data) ==
  IF data = <<>> THEN <<>>
  ELSE WriteUint(data[1], 4) \o WriteData(Tail(data))

\* (variant of Write: the count written for prog is one too large)
Write_countPlusOne(f) ==
  WriteProg(f.prog, 0,
    [ok |-> TRUE, ub |-> FALSE,
     bytes |-> WriteUint(Len(f.data), SizeofSizeT) \o WriteData(f.data)
               \o WriteUint(Len(f.prog) + 1, SizeofSizeT)])

\* FST::Write: the bytes written and the value returned
Write(f) ==
  WriteProg(f.prog, 0,
    [ok |-> TRUE, ub |-> FALSE,
     bytes |-> WriteUint(Len(f.data), SizeofSizeT) \o WriteData(f.data)
               \o WriteUint(Len(f.prog), SizeofSizeT)])

\* Passes of the loops of Read that are followed after the stream is
\* exhausted (every read of such a pass fails); when more are left, lost
\* says that Read is not followed further: the arrays go on with cells
\* made of unset bytes only.
MaxPastEnd == 3

\* ReadUint<uint32_t> at offset pos converted to int32_t: the value when
\* the call reads a byte of the stream, else four times the unset buf
ReadCell(r, pos) ==
  IF pos < Len(r) THEN ReadUint32(StreamBytes(r, pos, 4, 0)) ELSE Indet

\* FST::Read, the loop over i < dataLen: n passes are left, pos is the
\* offset in the stream; the outcomes [vals, lost]
RECURSIVE ReadData(_, _, _, _)
ReadData(r, pos, n, fuel) ==
  IF n = 0 THEN {[vals |-> <<>>, lost |-> FALSE]}
  ELSE IF pos >= Len(r) /\ fuel = 0 THEN {[vals |-> <<>>, lost |-> TRUE]}
  ELSE {[vals |-> <<ReadCell(r, pos)>> \o d.vals, lost |-> d.lost] :
          d \in ReadData(r, pos + 4, n - 1,
                         IF pos >= Len(r) THEN fuel - 1 ELSE fuel)}

\* FST::Read, the loop over pc < progLen: n passes are left, pos is the
\* offset in the stream, x = [ok, prog, lost]; the outcomes.  An op byte
\* from the unset buf is any byte.  A ch or a jump from the unset buf is
\* followed as zero and as not zero, which is all the pass tests; the op
\* cell it is stored in is then indeterminate.
RECURSIVE ReadProg(_, _, _, _, _)
ReadProg(r, pos, n, fuel, x) ==
  IF n = 0 THEN {x}
  ELSE IF pos >= Len(r) /\ fuel = 0 THEN {[x EXCEPT !.lost = TRUE]}
  ELSE
    LET p2 == pos + 2
        f1 == IF pos >= Len(r) THEN fuel - 1 ELSE fuel
        next(p, cells) ==
          ReadProg(r, p, n - 1, f1, [x EXCEPT !.prog = @ \o cells])
        ops == {ReadUint(o) : o \in ReadVals(r, pos, 1)}
        chZero == {ReadUint(c) = 0 : c \in ReadVals(r, pos + 1, 1)}
        jumpZero == {ReadUint(j) = 0 : j \in ReadVals(r, p2, 2)}
        \* the op cell of an instruction without / with a jump field
        cell(op) ==
          IF pos + 1 < Len(r) THEN OpCell(op, r[pos + 2], 0) ELSE Indet
        cellJ(op) ==
          IF p2 < Len(r)
          THEN OpCell(op, r[pos + 2], ReadUint(StreamBytes(r, p2, 2, 0)))
          ELSE Indet
        pass(op) ==
          IF op \in {OpAccept, OpAcceptBreak}
          THEN UNION {IF z THEN next(p2, <<cell(op)>>)
                      ELSE next(p2 + 8, <<cell(op), ReadCell(r, p2),
                                          ReadCell(r, p2 + 4)>>) :
                        z \in chZero}
          ELSE IF op \in {OpMatch, OpBreak}
          THEN UNION {IF ~z THEN next(p2 + 2, <<cellJ(op)>>)
                      ELSE next(p2 + 6, <<cellJ(op), ReadCell(r, p2 + 2)>>) :
                        z \in jumpZero}
          ELSE IF op \in {OpOutput, OpOutputBreak}
          THEN UNION {IF ~z
                      THEN next(p2 + 6, <<cellJ(op), ReadCell(r, p2 + 2)>>)
                      ELSE next(p2 + 10, <<cellJ(op), ReadCell(r, p2 + 2),
                                           ReadCell(r, p2 + 6)>>) :
                        z \in jumpZero}
          ELSE {[x EXCEPT !.ok = FALSE]}
    IN  UNION {pass(op) : op \in ops}

\* FST::Read on the FST f0 from stream r, the outcomes: ok is the value
\* returned, threw says that reserve raised instead, prog and data are the
\* FST's arrays afterwards.  A length read from the unset buf is one byte
\* eight times: 0, or a length no process can reserve.  In an outcome with
\* lost, prog and data are the arrays where Read was left, and ok and threw
\* say nothing.
Read(f0, r) ==
  LET threw(data) ==
        [ok |-> FALSE, threw |-> TRUE, lost |-> FALSE,
         prog |-> f0.prog, data |-> data]
      progFrom(data, p2) ==
        UNION {LET progLen == ReadUintSize(bs)
               IN  (IF TRUE \in ReserveThrows(progLen)
                    THEN {threw(data)} ELSE {})
                   \cup
                   (IF FALSE \in ReserveThrows(progLen)
                    THEN {[ok |-> x.ok, threw |-> FALSE, lost |-> x.lost,
                           prog |-> x.prog, data |-> data] :
                            x \in ReadProg(r, p2 + SizeofSizeT, progLen.v,
                                           MaxPastEnd,
                                           [ok |-> TRUE, prog |-> f0.prog,
                                            lost |-> FALSE])}
                    ELSE {}) :
                 bs \in ReadVals(r, p2, SizeofSizeT)}
      dataFrom(dataLen) ==
        UNION {IF d.lost
               THEN {[ok |-> FALSE, threw |-> FALSE, lost |-> TRUE,
                      prog |-> f0.prog, data |-> f0.data \o d.vals]}
               ELSE progFrom(f0.data \o d.vals,
                             SizeofSizeT + 4 * Len(d.vals)) :
                 d \in ReadData(r, SizeofSizeT, dataLen.v, MaxPastEnd)}
  IN  UNION {LET dataLen == ReadUintSize(bs)
             IN  (IF TRUE \in ReserveThrows(dataLen)
                  THEN {threw(f0.data)} ELSE {})
                 \cup
                 (IF FALSE \in ReserveThrows(dataLen)
                  THEN dataFrom(dataLen) ELSE {}) :
               bs \in ReadVals(r, 0, SizeofSizeT)}

\* ------------------------------------------------------------ the program
VARIABLES
  pc,      \* where BuildFST is: "sort", "pairs", "emit", "built", or how it
           \* ended without returning: "threw", "crashed"
  input,   \* the caller's vector<Pair> (sorted in place by buildMAST)
  k,       \* the next pair of the loop over input (1-based)
  prev,    \* the local prev of buildMAST
  m,       \* the State objects, Mast.states, Mast.finalStates, dict
  e,       \* the locals of buildMachine
  si,      \* the next state of the loop over Mast.states (1-based)
  fst,     \* the FST BuildFST returned
  res,     \* the answer of the last query on fst (ub: the run read
           \* outside prog or data, so the answer is not defined)
  wr,      \* what the last Write(fst) wrote and returned
  rd,      \* the fresh FST after Read of the bytes of wr, and what Read
           \* returned
  passes   \* how many passes of its while loop the call of run has made

vars == <<pc, input, k, prev, m, e, si, fst, res, wr, rd, passes>>

NoMast ==
  [heap |-> <<>>, states |-> <<>>, finalStates |-> <<>>, dict |-> <<>>,
   threw |-> ""]
NoFst == [prog |-> <<>>, data |-> <<>>]
NoRes == [kind |-> "none"]
NoWrite == [done |-> FALSE, ok |-> FALSE, ub |-> FALSE, bytes |-> <<>>]
NoRead ==
  [done |-> FALSE, ok |-> FALSE, threw |-> FALSE, lost |-> FALSE,
   prog |-> <<>>, data |-> <<>>]

Init ==
  /\ input \in Inputs
  /\ pc = "sort"
  /\ k = 1
  /\ prev = <<>>
  /\ m = NoMast
  /\ e = InitEmit
  /\ si = 1
  /\ fst = NoFst
  /\ res = NoRes
  /\ wr = NoWrite
  /\ rd = NoRead
  /\ passes = 0

\* buildMAST up to its loop: sort the input, allocate buf
SortInput ==
  /\ pc = "sort"
  /\ input' \in SortResults(input)
  /\ m' = InitBuilder(input)
  /\ pc' = "pairs"
  /\ UNCHANGED <<k, prev, e, si, fst, res, wr, rd, passes>>

\* one iteration of the loop over the sorted pairs
NextPair ==
  /\ pc = "pairs"
  /\ k <= Len(input)
  /\ \E u \in 0..Len(input[k].in) :
       m' = ProcessPair(m, input[k], prev, PrevStore(input, k - 1), u)
  /\ IF m'.threw # ""
     THEN pc' = "threw" /\ UNCHANGED <<k, prev>>
     ELSE pc' = pc /\ k' = k + 1 /\ prev' = input[k].in
  /\ UNCHANGED <<input, e, si, fst, res, wr, rd, passes>>

\* the flush of buf and the return of buildMAST
FlushBuf ==
  /\ pc = "pairs"
  /\ k > Len(input)
  /\ m' = Flush(m, prev)
  /\ pc' = IF m'.threw # "" THEN "threw" ELSE "emit"
  /\ UNCHANGED <<input, k, prev, e, si, fst, res, wr, rd, passes>>

\* one iteration of the loop over Mast.states of buildMachine
EmitNext ==
  /\ pc = "emit"
  /\ si <= Len(m.states)
  /\ e' = EmitState(e, m.heap, m.states[si])
  /\ pc' = IF e'.threw # "" THEN "threw"
           ELSE IF e'.ub THEN "crashed" ELSE pc
  /\ si' = si + 1
  /\ UNCHANGED <<input, k, prev, m, fst, res, wr, rd, passes>>

\* the end of buildMachine: reverse_copy into the fresh FST's empty prog,
\* then the return.  Writing through begin() of an empty vector is
\* undefined: the process dies, or the stores land outside the vector.
ReturnMachine ==
  /\ pc = "emit"
  /\ si > Len(m.states)
  /\ \/ /\ fst' = [prog |-> reverse_copy(e.prog, <<>>), data |-> e.data]
        /\ pc' = "built"
     \/ /\ ~reverse_copy_defined(e.prog, <<>>)
        /\ pc' = "crashed"
        /\ UNCHANGED fst
  /\ UNCHANGED <<input, k, prev, m, e, si, res, wr, rd, passes>>

\* what the uninitialised int32_t out of run holds
GarbageOut == {Indet}
\* values the uninitialised Operation op of run may hold: a byte that is an
\* accept opcode or one that is not (op is only tested for Accept /
\* AcceptBreak)
GarbageOp == {OpAccept, 98}

DoSearch ==
  /\ pc = "built"
  /\ \E q \in Queries, o \in GarbageOut, p \in GarbageOp, sg \in BOOLEAN :
       res' = [kind |-> "Search", q |-> q,
               ub |-> run(fst, q, o, p, sg).ub,
               out |-> Search(fst, q, o, p, sg)]
  /\ UNCHANGED <<pc, input, k, prev, m, e, si, fst, wr, rd, passes>>

DoPrefixSearch ==
  /\ pc = "built"
  /\ \E q \in Queries, o \in GarbageOut, p \in GarbageOp, sg \in BOOLEAN :
       res' = [kind |-> "PrefixSearch", q |-> q,
               ub |-> run(fst, q, o, p, sg).ub,
               length |-> PrefixSearchLength(fst, q, o, p, sg),
               out |-> PrefixSearch(fst, q, o, p, sg)]
  /\ UNCHANGED <<pc, input, k, prev, m, e, si, fst, wr, rd, passes>>

DoCommonPrefixSearch ==
  /\ pc = "built"
  /\ \E q \in Queries, o \in GarbageOut, p \in GarbageOp, sg \in BOOLEAN :
       LET r == CommonPrefixSearch(fst, q, o, p, sg)
       IN  res' = [kind |-> "CommonPrefixSearch", q |-> q,
                       ub |-> run(fst, q, o, p, sg).ub,
                       lens |-> r.lens, outputs |-> r.outputs]
  /\ UNCHANGED <<pc, input, k, prev, m, e, si, fst, wr, rd, passes>>

\* Write(fst) to a fresh stream
DoWrite ==
  /\ pc = "built"
  /\ LET w == Write(fst)
     IN  wr' = [done |-> TRUE, ok |-> w.ok, ub |-> w.ub, bytes |-> w.bytes]
  /\ UNCHANGED <<pc, input, k, prev, m, e, si, fst, res, rd, passes>>

\* Read of the written bytes on a fresh FST
DoRead ==
  /\ pc = "built"
  /\ wr.done
  /\ \E r \in Read(NoFst, wr.bytes) :
       rd' = [done |-> TRUE, ok |-> r.ok, threw |-> r.threw,
              lost |-> r.lost, prog |-> r.prog, data |-> r.data]
  /\ UNCHANGED <<pc, input, k, prev, m, e, si, fst, res, wr, passes>>

Next ==
  \/ SortInput
  \/ NextPair
  \/ FlushBuf
  \/ EmitNext
  \/ ReturnMachine
  \/ DoSearch
  \/ DoPrefixSearch
  \/ DoCommonPrefixSearch
  \/ DoWrite
  \/ DoRead

Spec == Init /\ [][Next]_vars

\* ------------------------------------------------------------ properties
\* the collection given to BuildFST (sorting permutes it in place)
KeySet == {input[i].in : i \in 1..Len(input)}
OutsOf(key) == {input[i].out : i \in {j \in 1..Len(input) : input[j].in = key}}
ExpectedOutputs(key) == SetInOrder(OutsOf(key))
IsPrefix(a, b) == Len(a) <= Len(b) /\ SubSeq(b, 1, Len(a)) = a
Range(f) == {f[x] : x \in DOMAIN f}

\* buildMAST has returned its Mast
MastReturned ==
  \/ pc \in {"emit", "built", "crashed"}
  \/ pc = "threw" /\ m.threw = ""

\* the loop over Mast.states of buildMachine has run to its end
EmitCompleted ==
  pc \in {"emit", "built", "crashed"} /\ si > Len(m.states) /\ ~e.ub

\* C1 (as claimed): Search of an input key on the returned FST yields exactly
\* the distinct outputs the collection associates with the key, ascending.
C1_ExactMatchSoundness ==
  (res.kind = "Search" /\ res.q \in KeySet)
    => res.out = ExpectedOutputs(res.q)

\* C2: Search of a string that is not an input key yields the empty list on
\* every returned FST, and on the FST of the empty collection PrefixSearch
\* reports length -1 for every query.
C2_ExactMatchCompleteness ==
  /\ (res.kind = "Search" /\ res.q \notin KeySet) => res.out = <<>>
  /\ (res.kind = "Search" /\ input = <<>>) => res.out = <<>>
  /\ (res.kind = "PrefixSearch" /\ input = <<>>)
       => (res.length = -1 /\ res.out = <<>>)
  /\ (res.kind = "CommonPrefixSearch" /\ input = <<>>)
       => (res.lens = <<>> /\ res.outputs = <<>>)

\* C2, witnesses: a non-key was searched on the FST of a non-empty
\* collection; PrefixSearch ran on the FST of the empty collection
C2_Witness ==
  /\ res.kind = "Search"
  /\ KeySet # {}
  /\ res.q \notin KeySet
  /\ res.q # <<>>

\* C3 (as claimed): CommonPrefixSearch(s) has an entry (len(k), outputs of
\* k) for every input key k that is a prefix of s, and every entry's length
\* cuts s at an input key.
C3_PrefixCoverage ==
  res.kind = "CommonPrefixSearch" =>
    /\ \A key \in KeySet :
         IsPrefix(key, res.q) =>
           \E i \in 1..Len(res.lens) :
              /\ res.lens[i] = Len(key)
              /\ res.outputs[i] = ExpectedOutputs(key)
    /\ \A i \in 1..Len(res.lens) :
         SubSeq(res.q, 1, res.lens[i]) \in KeySet

\* the three query answers of FST f for query q
Answers(f, q, o, p, sg) ==
  <<Search(f, q, o, p, sg), PrefixSearchLength(f, q, o, p, sg),
    PrefixSearch(f, q, o, p, sg), CommonPrefixSearch(f, q, o, p, sg)>>

\* C4: for the FST BuildFST returned, Write succeeds, Read of the written
\* bytes on a fresh FST succeeds, and the FST read answers every query as
\* the written one does.
C4_RoundTrip ==
  rd.done =>
    /\ wr.ok
    /\ rd.ok
    /\ ~rd.threw
    /\ \A q \in Queries, o \in GarbageOut, p \in GarbageOp, sg \in BOOLEAN :
         Answers([prog |-> rd.prog, data |-> rd.data], q, o, p, sg)
           = Answers(fst, q, o, p, sg)

\* BuildFST returned for a collection that is not empty, Write wrote the
\* two lengths of its FST and returned true, and Read of these bytes
\* returned true
C4_Witness ==
  /\ pc = "built"
  /\ input # <<>>
  /\ wr.done
  /\ wr.ok
  /\ Len(wr.bytes) = 2 * SizeofSizeT
  /\ rd.done
  /\ rd.ok
  /\ ~rd.lost

\* C5: the lengths CommonPrefixSearch returns are strictly increasing.
C5_MonotoneLengths ==
  res.kind = "CommonPrefixSearch" =>
    \A i, j \in 1..Len(res.lens) : i < j => res.lens[i] < res.lens[j]

\* C6: after buildMAST returns no two distinct states of Mast.states are
\* equal under State::operator==.
C6_Minimality ==
  MastReturned =>
    \A i, j \in 1..Len(m.states) :
       i # j => ~StateEq(m.heap, m.states[i], m.states[j])

\* C6, witness: buildMAST returned a Mast in which a frozen state was reused
\* (it is the successor of two transitions) next to other states
C6_Witness ==
  /\ MastReturned
  /\ Len(m.states) >= 3
  /\ \E i, j \in 1..Len(m.states) :
       \E c \in DOMAIN m.heap[m.states[i]].trans,
          d \in DOMAIN m.heap[m.states[j]].trans :
          /\ <<i, c>> # <<j, d>>
          /\ m.heap[m.states[i]].trans[c] = m.heap[m.states[j]].trans[d]
          /\ m.heap[m.states[i]].trans[c] \in Range(m.states)

\* C7 (as claimed): BuildFST raises no failure and sets no error string.
C7_BuilderInfallible ==
  /\ pc # "threw"
  /\ e.err = ""

\* the state the last pass of the loop over Mast.states emitted
LastEmitted == m.heap[m.states[si - 1]]

\* C8 (as claimed): the block emitted for a final state ends with one accept
\* cell, AcceptBreak when the state has no outgoing transition and Accept
\* otherwise, with ch = 1 iff the tail set is non-empty and jump = 0.
C8_AcceptCell ==
  (pc = "emit" /\ si > 1 /\ LastEmitted.isFinal) =>
    /\ Len(e.prog) >= 1
    /\ e.prog[Len(e.prog)] =
         OpCell(IF DOMAIN LastEmitted.trans = {}
                THEN OpAcceptBreak ELSE OpAccept,
                IF LastEmitted.tail # {} THEN 1 ELSE 0, 0)

\* C9 (as claimed): after buildMAST returns every transition of every state
\* of Mast.states points to a member of Mast.states.
C9_SuccessorsFrozen ==
  MastReturned =>
    \A i \in 1..Len(m.states) :
       \A c \in DOMAIN m.heap[m.states[i]].trans :
          m.heap[m.states[i]].trans[c] \in Range(m.states)

\* C10 (as claimed): buildMachine returns an FST whose prog is the reversal
\* of the emitted stream and whose data is the emitted data array.
C10_ProgramIsReversal ==
  (EmitCompleted /\ pc # "emit") =>
    /\ pc = "built"
    /\ Len(fst.prog) = Len(e.prog)
    /\ \A i \in 1..Len(e.prog) : fst.prog[i] = e.prog[Len(e.prog) + 1 - i]
    /\ fst.data = e.data

\* Lemmas.  buildMachine finds the address of every successor (no end()
\* iterator is dereferenced, *err stays empty), and every FST BuildFST
\* returns has an empty program and an empty data array.
NeverUbAddr == ~e.ub
NeverErr == e.err = ""
BuiltIsEmpty == pc = "built" => fst = NoFst

\* ------------------------------------- buildMachine on a Mast given to it
\* Mast::buildMachine is a public method of a struct with public members.
\* The Masts below are given to it directly: a final leaf (id 0), then
\* JumpFillers states whose every edge carries an output and leads to the
\* leaf, then one state under test.  The fillers make the stream longer than
\* UINT16_MAX cells, which no Mast that buildMAST returns for a small
\* collection does; the state under test has edges with the output 0 stored
\* in its output map, which setOutput never stores.
JumpFillers == (UINT16_MAX + 1) \div 512

LeafState == [NewState EXCEPT !.isFinal = TRUE]

\* filler f with the n greatest bytes as edges; hcode is what setTransition
\* and setOutput add up to
FillerState(f, n) ==
  LET chs == (256 - n)..255
      sum == (n * ((256 - n) + 255)) \div 2
  IN  [id |-> f,
       trans |-> [c \in chs |-> 1],
       output |-> [c \in chs |-> f],
       tail |-> {},
       isFinal |-> FALSE,
       hcode |-> sum * magicTransition + (sum + n * f) * magicOutput]

\* the objects of the leaf and of the fillers; the last filler has n edges
FillerHeap(n) ==
  <<LeafState>> \o
  [f \in 1..JumpFillers |->
     FillerState(f, IF f = JumpFillers THEN n ELSE 256)]

\* the locals of buildMachine after its passes for the leaf and for cnt
\* fillers, the last of them with n edges.  The leaf is one Accept cell;
\* a filler edge on byte ch is the output cell, then the op cell, whose jump
\* is the length of the stream before the edge (the leaf's address is 1).
FillerCell(i) ==
  IF i = 1 THEN OpCell(OpAccept, 0, 0)
  ELSE LET j == i - 2
           f == j \div 512 + 1
           t == (j % 512) \div 2
       IN  IF j % 2 = 0 THEN RawCell(f)
           ELSE OpCell(IF t = 0 THEN OpOutputBreak ELSE OpOutput,
                       255 - t, 1 + (f - 1) * 512 + 2 * t)

FillerEmit(cnt, n) ==
  [prog |-> [i \in 1..(1 + (cnt - 1) * 512 + 2 * n) |-> FillerCell(i)],
   data |-> <<>>,
   addrMap |-> [i \in 0..cnt |->
                  IF i = 0 THEN 1
                  ELSE IF i = cnt THEN 1 + (cnt - 1) * 512 + 2 * n
                  ELSE 1 + i * 512],
   err |-> "", threw |-> "", ub |-> FALSE]

\* the state under test: edges on bytes 97 and 200 to the objects t1 and t2
\* with the outputs o1 and o2
TestState(t1, o1, t2, o2, fin) ==
  [id |-> JumpFillers + 1,
   trans |-> (97 :> t1) @@ (200 :> t2),
   output |-> (97 :> o1) @@ (200 :> o2),
   tail |-> {},
   isFinal |-> fin,
   hcode |-> 0]

\* buildMachine on such a Mast, about to emit the state under test
InitJump ==
  /\ \E n \in {254, 255, 256} :
       /\ e = FillerEmit(JumpFillers, n)
       /\ \E t1, t2 \in {1, 2, JumpFillers + 1}, o1, o2 \in {0, 5},
             fin \in BOOLEAN :
             m = [heap |-> Append(FillerHeap(n),
                                  TestState(t1, o1, t2, o2, fin)),
                  states |-> [i \in 1..(JumpFillers + 2) |-> i],
                  finalStates |-> IF fin THEN <<1, JumpFillers + 2>>
                                  ELSE <<1>>,
                  dict |-> <<>>, threw |-> ""]
  /\ si = JumpFillers + 2
  /\ pc = "emit"
  /\ input = <<>>
  /\ k = 1
  /\ prev = <<>>
  /\ fst = NoFst
  /\ res = NoRes
  /\ wr = NoWrite
  /\ rd = NoRead
  /\ passes = 0

InitBuildOrJump == Init \/ InitJump

NextJump ==
  \/ SortInput
  \/ NextPair
  \/ FlushBuf
  \/ EmitNext
  \/ ReturnMachine

\* BuildFST up to its return, and buildMachine on the Masts above
SpecJump == InitBuildOrJump /\ [][NextJump]_vars

\* ------------------------------------------------------ C11: jump targets
\* the emitted stream read backwards: cell i of the reversal (counted from
\* 0) is emitted cell N - 1 - i
Reversal(s) == [i \in 1..Len(s) |-> s[Len(s) + 1 - i]]

\* buildMachine right after the pass of the edge loop for byte ch of state
\* s, entered with the locals e0: the edges of greater bytes come first
EdgePass(e0, h, s, ch) ==
  LET before == EmitEdges(e0, h, s, {c \in DOMAIN h[s].trans : c > ch}, TRUE)
  IN  IF before.threw # "" \/ before.ub THEN before
      ELSE EmitEdge(before, h, s, ch, \A c \in DOMAIN h[s].trans : c <= ch)

\* the registers of run after one pass of its loop, entered at the op cell
\* of the edge (s, ch) in the reversal of the stream e1.prog with byte ch
\* under the head.  The op cell is the last cell the edge pass pushes.
StepOnEdge(e0, e1, h, s, ch, sg) ==
  RunStep(Reversal(e1.prog), e1.data, <<ch>>,
          [InitRun(0, 0) EXCEPT
             !.pc = Len(e1.prog) - Len(EdgePass(e0, h, s, ch).prog)],
          sg)

\* the pass of buildMachine's loop for state s took the locals from e0 to
\* e1: every edge of s that was emitted and whose successor has its address
\* in addrMap leads the VM, on its byte, to the entry cell of the successor
JumpsExact(e0, e1, h, s) ==
  \A ch \in DOMAIN h[s].trans :
     LET t == EdgePass(e0, h, s, ch)
         tid == h[h[s].trans[ch]].id
     IN  (t.threw = "" /\ ~t.ub /\ tid \in DOMAIN e0.addrMap) =>
           \A sg \in BOOLEAN :
              ch = CharToInt(ch, sg) =>
                LET st == StepOnEdge(e0, e1, h, s, ch, sg)
                IN  /\ st.at = "loop"
                    /\ st.hd = 1
                    /\ st.pc = Len(e1.prog) - e0.addrMap[tid]

\* C11: in the reversal of the emitted stream, the VM step on the op cell of
\* a transition whose successor's address was recorded, with the
\* transition's byte under the head, sets pc to N - addrMap[successor id],
\* for the 16-bit and the extended jump of Match/Break and of
\* Output/OutputBreak.
C11_JumpTargetsExact ==
  [][EmitNext => JumpsExact(e, e', m.heap, m.states[si])]_vars

\* C11, witness: buildMachine emitted a state with two edges, the greater
\* byte as OutputBreak with a 16-bit jump (op cell, then the output cell, as
\* emitted the other way round) and the smaller byte as Match with an
\* extended jump (the raw jump cell, then the op cell with jump field 0)
C11_Witness ==
  /\ pc = "emit"
  /\ si > 1
  /\ e.threw = ""
  /\ ~e.ub
  /\ ~LastEmitted.isFinal
  /\ Cardinality(DOMAIN LastEmitted.trans) = 2
  /\ Len(e.prog) > UINT16_MAX
  /\ CellOp(e.prog[Len(e.prog)]) = OpMatch
  /\ CellJump(e.prog[Len(e.prog)]) = 0
  /\ CellV32(e.prog[Len(e.prog) - 1]) > UINT16_MAX
  /\ CellOp(e.prog[Len(e.prog) - 2]) = OpOutputBreak
  /\ CellJump(e.prog[Len(e.prog) - 2]) > 0

\* ------------------------------------------------- FST::run pass by pass
\* The programs a run is given here: sequences of instructions in the
\* layout Read loads (an op cell followed by its raw cells), with jump
\* fields and raw jump cells of any sign and size: forward, onto a raw
\* cell (also the last cell of the program), past the end, back onto the
\* op cell itself, before cell 0, and one that takes pc += v32 out of the
\* range of int.
MaxInstr == 2
RunJumps == {-3, -1, 0, 1, 2, INT_MAX}
\* the out cells of the output instructions: a plain value, and values
\* that read as an op cell when a jump lands on them as the last cell of
\* the program, so that the raw jump cell, the out cell or the tail cells
\* of that instruction lie behind prog
RunOuts == {1, OpCell(OpMatch, 97, 0), OpCell(OpOutput, 97, 1),
            OpCell(OpAccept, 1, 0)}
\* the tail ranges <<to, from>> of the accept instructions, for the data
\* array <<1>>: inside it, one element behind it, one element before it,
\* empty and outside it, and with from > to
RunTails == {<<1, 0>>, <<2, 0>>, <<1, -1>>, <<5, 5>>, <<0, 1>>}
RunInstr ==
  {<<OpCell(op, 0, 0)>> : op \in {OpAccept, OpAcceptBreak}}
  \cup {<<OpCell(op, 1, 0), t[1], t[2]>> :
          op \in {OpAccept, OpAcceptBreak}, t \in RunTails}
  \cup {<<OpCell(op, 97, j)>> : op \in {OpMatch, OpBreak}, j \in {1, 3}}
  \cup {<<OpCell(op, 97, 0), v>> : op \in {OpMatch, OpBreak}, v \in RunJumps}
  \cup {<<OpCell(op, 97, j), o>> : op \in {OpOutput, OpOutputBreak},
                                   j \in {1, 3}, o \in RunOuts}
  \cup {<<OpCell(op, 97, 0), 1, v>> : op \in {OpOutput, OpOutputBreak},
                                      v \in RunJumps}
RECURSIVE Concat(_)
Concat(ss) == IF ss = <<>> THEN <<>> ELSE ss[1] \o Concat(Tail(ss))

RunProgs == {Concat(is) : is \in UNION {[1..n -> RunInstr] : n \in 0..MaxInstr}}
RunData == {<<1>>}

InitVm ==
  /\ fst \in [prog : RunProgs, data : RunData]
  /\ pc = "built"
  /\ input = <<>>
  /\ k = 1
  /\ prev = <<>>
  /\ m = NoMast
  /\ e = InitEmit
  /\ si = 1
  /\ res = NoRes
  /\ wr = NoWrite
  /\ rd = NoRead
  /\ passes = 0

\* the call is at the loop test / has left the loop
Running == res.kind = "run" /\ res.st.at \in {"loop", "wild"}
Returned == res.kind = "run" /\ res.st.at \notin {"loop", "wild"}

\* run is called: the locals are initialised (out and op are not).  run
\* keeps nothing from one call to the next, so one call is followed.
StartRun ==
  /\ pc = "built"
  /\ res = NoRes
  /\ \E q \in Queries, o \in GarbageOut, p \in GarbageOp, sg \in BOOLEAN :
       res' = [kind |-> "run", q |-> q, sg |-> sg, st |-> InitRun(o, p)]
  /\ passes' = 0
  /\ UNCHANGED <<pc, input, k, prev, m, e, si, fst, wr, rd>>

\* a + v in int for a >= 0, wrapping around when the sum leaves the range
AddInt(a, v) ==
  IF v > INT_MAX - a THEN ((v - INT_MAX) + a - 1) - INT_MAX - 1 ELSE a + v

\* The registers after a pass that reads outside prog or data or takes pc
\* out of the range of int, when the process goes on.
\*  - pc += v32 outside the range of int wraps around.
\*  - A raw jump cell behind prog holds any value, so pc becomes any value:
\*    each cell of prog (here), or a value outside prog (WildPass).
\*  - An out cell behind prog and the elements of a tail range that lie
\*    before or behind data are indeterminate.
\*  - A tail range whose to or from cell lies behind prog has any bounds:
\*    the vector recorded is indeterminate as a whole.
\*  - A tail range with from > to does not go on (insert raises
\*    std::length_error for the negative distance).
UbPass(prog, data, in, st, sg) ==
  LET c == prog[st.pc + 1]
      op == CellOp(c)
      jump == CellJump(c)
      s1 == [st EXCEPT !.op = op]
  IN  IF st.at # "loop" THEN {}
      ELSE IF RunStep(prog, data, in, st, sg).at # "ub" THEN {}
      ELSE IF op \in {OpMatch, OpBreak, OpOutput, OpOutputBreak}
      THEN LET isOut == op \in {OpOutput, OpOutputBreak}
               pc1 == IF isOut THEN st.pc + 1 ELSE st.pc
               out == IF ~isOut THEN st.out
                      ELSE IF InProg(prog, st.pc + 1)
                      THEN CellV32(prog[st.pc + 2]) ELSE Indet
               s2 == [s1 EXCEPT !.out = out, !.hd = @ + 1]
           IN  IF jump > 0 THEN {[s2 EXCEPT !.pc = pc1 + jump]}
               ELSE IF InProg(prog, pc1 + 1)
               THEN {[s2 EXCEPT !.pc = AddInt(pc1 + 1,
                                              CellV32(prog[pc1 + 2]))]}
               ELSE {[s2 EXCEPT !.pc = i] : i \in 0..(Len(prog) - 1)}
      ELSE LET stop == (op = OpAcceptBreak \/ st.hd = Len(in))
               rec(out) ==
                 {[s1 EXCEPT
                     !.pc = @ + 3,
                     !.snap = Append(@, [pc |-> st.pc, hd |-> st.hd,
                                         out |-> out]),
                     !.at = IF stop THEN "end" ELSE "loop"]}
           IN  IF ~InProg(prog, st.pc + 1) \/ ~InProg(prog, st.pc + 2)
               THEN rec(Indet)
               ELSE LET to == CellV32(prog[st.pc + 2])
                        from == CellV32(prog[st.pc + 3])
                    IN  IF from > to THEN {}
                        ELSE rec([i \in 1..(to - from) |->
                                    IF from + i \in 1..Len(data)
                                    THEN data[from + i] ELSE Indet])

\* The registers after a pass that adds a raw jump cell behind prog to pc
\* and gets a pc outside prog: pc is indeterminate and the run is at
\* "wild", which is at the loop test, to fail it.
WildPass(prog, in, st, sg) ==
  IF st.at # "loop" THEN {}
  ELSE IF RunStep(prog, <<>>, in, st, sg).at # "ub" THEN {}
  ELSE LET c == prog[st.pc + 1]
           op == CellOp(c)
           isOut == op \in {OpOutput, OpOutputBreak}
           pc1 == IF isOut THEN st.pc + 1 ELSE st.pc
           out == IF ~isOut THEN st.out
                  ELSE IF InProg(prog, st.pc + 1)
                  THEN CellV32(prog[st.pc + 2]) ELSE Indet
       IN  IF /\ op \in {OpMatch, OpBreak, OpOutput, OpOutputBreak}
              /\ CellJump(c) = 0
              /\ ~InProg(prog, pc1 + 1)
           THEN {[st EXCEPT !.op = op, !.out = out, !.hd = @ + 1,
                            !.pc = Indet, !.at = "wild"]}
           ELSE {}

\* The registers after one pass of the loop as the language defines it.
\* A pass that reads a cell or a data range outside its array, or
\* overflows pc, has no defined result: it ends at "ub", which is the
\* process stopping there; UbPass and WildPass are the process going on
\* with the values it got.  A run at "wild" fails the loop test.
PassOutcomes(prog, data, in, st, sg) ==
  IF st.at = "wild" THEN [st EXCEPT !.at = "end"]
  ELSE RunStep(prog, data, in, st, sg)

\* one pass of the while loop of run: the loop test, then the switch
RunPass ==
  /\ Running
  /\ \/ res' = [res EXCEPT !.st = PassOutcomes(fst.prog, fst.data, res.q,
                                                res.st, res.sg)]
     \/ \E r \in UbPass(fst.prog, fst.data, res.q, res.st, res.sg) :
          res' = [res EXCEPT !.st = r]
     \/ \E r \in WildPass(fst.prog, res.q, res.st, res.sg) :
          res' = [res EXCEPT !.st = r]
  /\ passes' = passes + 1
  /\ UNCHANGED <<pc, input, k, prev, m, e, si, fst, wr, rd>>

NextVm ==
  \/ StartRun
  \/ RunPass

SpecVm == InitVm /\ [][NextVm]_vars

\* the most passes a run on input q of a program of n cells can make if
\* every pass advances the head or moves pc forward: for each position of
\* the head, one pass for each cell and the pass that leaves the loop
PassBound(q, n) == (Len(q) + 1) * (n + 1)

\* the step is a pass of the loop: RunPass, the only action that counts one
MadePass == passes' = passes + 1

\* C12: every run on a program in the layout Read loads, whatever its jump
\* values, and on every input returns: each pass of the loop advances the
\* input head (which never passes the end of the input), or moves the
\* program counter forward, or leaves the loop; a run that is in the loop
\* always has its next pass to make, and it has made no more passes than
\* the head positions and the cells allow, so it is out of the loop after
\* that many.
C12_QueryTermination ==
  /\ [][MadePass =>
          /\ res'.st.hd <= Len(res.q)
          /\ \/ res'.st.hd > res.st.hd
             \/ res'.st.at \notin {"loop", "wild"}
             \/ res'.st.at = "loop" /\ res'.st.pc > res.st.pc]_vars
  /\ [](Running => ENABLED RunPass)
  /\ [](res.kind = "run" => passes <= PassBound(res.q, Len(fst.prog)))

\* a run on "aa" of the program whose only instruction jumps back onto
\* itself: the head went to the end of the input while pc stayed at 0, and
\* the run is over
C12_Witness ==
  /\ fst.prog = <<OpCell(OpMatch, 97, 0), RawCell(-1)>>
  /\ Returned
  /\ res.q = <<97, 97>>
  /\ res.st.hd = 2
  /\ res.st.pc = 0
  /\ res.st.at = "end"

====
